---- MODULE Spec2Model ----
(***************************************************************************)
(* Model of crates/egml-io/src/geometry/multi_surface.rs:                  *)
(* parse_multi_surface and TryFrom<GmlMultiSurface> for MultiSurface.      *)
(*                                                                         *)
(* Conventions.  A Rust String is the sequence of its bytes.  An           *)
(* Option<T> is a sequence of length 0 (None) or 1 (Some).  A Result<T,E>  *)
(* is a record [ok, err] of two such options, exactly one of which is      *)
(* non-empty.  A point of a ring is a natural number.                      *)
(***************************************************************************)
EXTENDS Integers, Sequences, FiniteSets, TLC

\* Largest number of gml:surfaceMember children of an input element.
MaxMembers == 2

None == << >>
Some(x) == << x >>
Ok(x) == [ok |-> << x >>, err |-> << >>]
Err(e) == [ok |-> << >>, err |-> << e >>]

(***************************************************************************)
(* Input alphabet.                                                         *)
(***************************************************************************)
\* Identifier strings: "", " ", "a", "b".
IdEmpty == << >>
IdBlank == << 32 >>
IdA == << 97 >>
IdB == << 98 >>
IdStrings == {IdEmpty, IdBlank, IdA, IdB}

\* Reference strings: "", "#r".
HrefEmpty == << >>
HrefRef == << 35, 114 >>
HrefStrings == {HrefEmpty, HrefRef}

\* Polygon payloads (GmlPolygon values): a square with two holes, a ring
\* with a repeated consecutive point, a ring with too few points, an
\* unclosed ring.
PHoles == [exterior |-> << 1, 2, 3, 4, 1 >>,
           interior |-> << << 5, 6, 7, 5 >>, << 5, 6, 7, 5 >> >>]
PRepeat == [exterior |-> << 1, 2, 2, 3, 1 >>, interior |-> << >>]
BShort == [exterior |-> << 1, 2 >>, interior |-> << >>]
BOpen == [exterior |-> << 1, 2, 3, 4 >>, interior |-> << >>]
Payloads == {PHoles, PRepeat, BShort, BOpen}

\* gml:surfaceMember elements of the text: the href attribute and the
\* polygon child are each present or absent.
TextMembers ==
    {[href |-> None, polygon |-> Some(p)] : p \in Payloads}
    \cup {[href |-> Some(HrefRef), polygon |-> None],
          [href |-> None, polygon |-> None],
          [href |-> Some(HrefRef), polygon |-> Some(PRepeat)]}

\* Sequences over S of length at most n.
SeqUpTo(S, n) == UNION {[1..k -> S] : k \in 0..n}

\* Diagnostics of the external deserializer.
DeCauses == {"UnexpectedEof", "WrongRoot"}

\* Source texts: the deserializer's verdict (broken = Some(cause) when the
\* text is not well formed or does not match the shape) and the element.
SourceTexts ==
    [broken : {None} \cup {Some(c) : c \in DeCauses},
     id : {None} \cup {Some(s) : s \in IdStrings},
     members : SeqUpTo(TextMembers, MaxMembers)]

(***************************************************************************)
(* Schema Mapper: the shape the deserializer populates.                    *)
(***************************************************************************)
\* #[serde(default)] on a String attribute: absent becomes "".
SerdeDefault(attr) == IF attr = None THEN << >> ELSE attr[1]

GmlSurfaceMember(m) == [href |-> SerdeDefault(m.href), polygon |-> m.polygon]

GmlMultiSurface(t) ==
    [id |-> SerdeDefault(t.id),
     members |-> [i \in 1..Len(t.members) |-> GmlSurfaceMember(t.members[i])]]

\* quick_xml::de::from_str::<GmlMultiSurface>
from_str(t) ==
    IF t.broken # None THEN Err(t.broken[1]) ELSE Ok(GmlMultiSurface(t))

(***************************************************************************)
(* Collaborators of the geometry model and the error type.                 *)
(***************************************************************************)
\* Id::try_from(String): the identifier strings the Id type accepts.
IdTryFrom(s) ==
    IF s = IdEmpty \/ s = IdBlank
    THEN None
    ELSE Some([origin |-> "parsed", value |-> s])

\* Id::from_hashed_u64: total.
from_hashed_u64(h) == [origin |-> "hashed", value |-> h]

\* Gml::new
GmlNew(id) == [id |-> id]

\* TryFrom<GmlPolygon> for Polygon: the domain model's ring rules.
PolygonTryFrom(p) ==
    IF Len(p.exterior) < 4 THEN Err("TooFewPoints")
    ELSE IF p.exterior[1] # p.exterior[Len(p.exterior)] THEN Err("NotClosed")
    ELSE Ok([exterior |-> p.exterior, interior |-> p.interior])

\* MultiSurface::new; rejects_empty is the domain's rule about a feature
\* without polygons.
MultiSurfaceNew(gml, members, rejects_empty) ==
    IF members = << >> /\ rejects_empty
    THEN Err("MustHaveAtLeastOneMember")
    ELSE Ok([gml |-> gml, surface_member |-> members])

\* From<quick_xml::DeError> for Error
ErrorFromDe(cause) == [kind |-> "Deserialization", cause |-> cause]

\* From<domain error> for Error
ErrorFromDomain(reason) == [kind |-> "PolygonConversion", cause |-> reason]

(***************************************************************************)
(* derive(Hash): the byte stream fed to the hasher.  The hasher state is   *)
(* the stream written so far; finish is taken to be collision-free, so the *)
(* finished value stands for the stream it was computed from.              *)
(***************************************************************************)
DefaultHasherNew == << >>
write(h, bytes) == h \o bytes
finish(h) == h

\* impl Hash for str: the bytes, then 0xff.
hash_str(h, s) == write(write(h, s), << 255 >>)

\* impl Hash for [T] where T is a point: length prefix, then the points.
hash_ring(h, r) == write(write(h, << Len(r) >>), r)

RECURSIVE hash_rings(_, _, _)
hash_rings(h, rs, i) ==
    IF i > Len(rs) THEN h ELSE hash_rings(hash_ring(h, rs[i]), rs, i + 1)

\* derive(Hash) for GmlPolygon: exterior, then the interior rings.
hash_polygon(h, p) ==
    hash_rings(write(hash_ring(h, p.exterior), << Len(p.interior) >>),
               p.interior, 1)

\* impl Hash for Option<GmlPolygon>: discriminant, then the payload.
hash_option(h, o) ==
    IF o = None THEN write(h, << 0 >>) ELSE hash_polygon(write(h, << 1 >>), o[1])

\* Variant: href is left out of the hash.
hash_member_without_href(h, m) == hash_option(h, m.polygon)

\* derive(Hash) for GmlSurfaceMember: href, then polygon.
hash_member(h, m) == hash_option(hash_str(h, m.href), m.polygon)

RECURSIVE hash_members(_, _, _)
hash_members(h, ms, i) ==
    IF i > Len(ms) THEN h ELSE hash_members(hash_member(h, ms[i]), ms, i + 1)

\* derive(Hash) for GmlMultiSurface: id, then members with a length prefix.
hash_multi_surface(h, v) ==
    hash_members(write(hash_str(h, v.id), << Len(v.members) >>), v.members, 1)

(***************************************************************************)
(* TryFrom<GmlMultiSurface> for MultiSurface, as functions.                *)
(***************************************************************************)
\* Variant: the hashed Id is used even when the identifier parses.
resolve_id_always_hashed(v) ==
    [id |-> from_hashed_u64(finish(hash_multi_surface(DefaultHasherNew, v))),
     calls |-> << "Id::try_from", "Hash::hash", "Id::from_hashed_u64" >>]

\* Variant: unwrap_or in place of unwrap_or_else, the fallback is computed
\* eagerly and thrown away when the identifier parses.
resolve_id_eager(v) ==
    LET parsed == IdTryFrom(v.id)
        hashed == from_hashed_u64(finish(hash_multi_surface(DefaultHasherNew, v)))
    IN  [id |-> IF parsed # None THEN parsed[1] ELSE hashed,
         calls |-> << "Id::try_from", "Hash::hash", "Id::from_hashed_u64" >>]

\* Lines 32-36: the Id and the collaborators invoked to obtain it.
resolve_id(v) ==
    LET parsed == IdTryFrom(v.id) IN
    IF parsed # None
    THEN [id |-> parsed[1], calls |-> << "Id::try_from" >>]
    ELSE [id |-> from_hashed_u64(finish(hash_multi_surface(DefaultHasherNew, v))),
          calls |-> << "Id::try_from", "Hash::hash", "Id::from_hashed_u64" >>]

\* Variant: a member without a polygon yields an empty polygon.
flat_map_polygon_or_default(m) ==
    IF m.polygon = None
    THEN Some([exterior |-> << >>, interior |-> << >>])
    ELSE m.polygon

RECURSIVE dedup(_)
dedup(r) ==
    IF Len(r) < 2 THEN r
    ELSE IF r[1] = r[2] THEN dedup(Tail(r))
    ELSE << r[1] >> \o dedup(Tail(r))

\* Variant: consecutive repeated points of the exterior ring are collapsed
\* before the payload is handed on.
flat_map_polygon_dedup(m) ==
    IF m.polygon = None THEN None
    ELSE Some([exterior |-> dedup(m.polygon[1].exterior),
               interior |-> m.polygon[1].interior])

\* Line 42: flat_map over Option<GmlPolygon> yields the payload or nothing.
flat_map_polygon(m) == m.polygon

RECURSIVE flatten(_, _)
flatten(ms, i) ==
    IF i > Len(ms) THEN << >> ELSE flat_map_polygon(ms[i]) \o flatten(ms, i + 1)

\* Variant: the Vec is extended at its front.
push_front(vec, x) == << x >> \o vec

\* Line 44: collect extends the Vec at its end.
push(vec, x) == Append(vec, x)

\* Lines 43-44: collect::<Result<Vec<_>, _>> stops at the first Err.
RECURSIVE collect(_, _, _)
collect(ps, i, acc) ==
    IF i > Len(ps) THEN Ok(acc)
    ELSE LET r == PolygonTryFrom(ps[i]) IN
         IF r.err # None THEN Err(r.err[1])
         ELSE collect(ps, i + 1, push(acc, r.ok[1]))

\* Lines 39-44.
convert_members(ms) == collect(flatten(ms, 1), 1, << >>)

\* Lines 31-48.
try_from(v, rejects_empty) ==
    LET gml == GmlNew(resolve_id(v).id)
        polys == convert_members(v.members)
    IN  IF polys.err # None THEN Err(ErrorFromDomain(polys.err[1]))
        ELSE LET r == MultiSurfaceNew(gml, polys.ok[1], rejects_empty) IN
             IF r.err # None THEN Err(ErrorFromDomain(r.err[1])) ELSE Ok(r.ok[1])

(***************************************************************************)
(* One call of parse_multi_surface, step by step.                          *)
(***************************************************************************)
VARIABLES
    source_text,    \* the argument of the call
    rejects_empty,  \* the domain's rule for MultiSurface::new
    pc,             \* "start", "try_from", "collect", "done"
    value,          \* Option<GmlMultiSurface>: parsed_geometry
    gml,            \* Option<Gml>: line 37
    idx,            \* position of the members iterator
    polygons,       \* the Vec<Polygon> being collected
    result,         \* what the call returned: [ok, err], both empty until done
    calls,          \* collaborators invoked so far, in order
    given,          \* payloads handed to the polygon constructor, in order
    constructed     \* arguments handed to MultiSurface::new, if invoked

vars == << source_text, rejects_empty, pc, value, gml, idx, polygons, result,
           calls, given, constructed >>

Init ==
    /\ source_text \in SourceTexts
    /\ rejects_empty \in BOOLEAN
    /\ pc = "start"
    /\ value = None
    /\ gml = None
    /\ idx = 1
    /\ polygons = << >>
    /\ result = [ok |-> None, err |-> None]
    /\ calls = << >>
    /\ given = << >>
    /\ constructed = None

\* Variant: a deserializer failure is not propagated, the element is used
\* as far as it was read.
DeserializeLenient ==
    /\ pc = "start"
    /\ calls' = Append(calls, "de::from_str")
    /\ value' = Some(GmlMultiSurface(source_text))
    /\ pc' = "try_from"
    /\ UNCHANGED << source_text, rejects_empty, gml, idx, polygons, result,
                    given, constructed >>

\* Line 52: de::from_str(source_text)?
Deserialize ==
    /\ pc = "start"
    /\ calls' = Append(calls, "de::from_str")
    /\ LET r == from_str(source_text) IN
       IF r.err # None
       THEN /\ result' = Err(ErrorFromDe(r.err[1]))
            /\ pc' = "done"
            /\ value' = value
       ELSE /\ value' = r.ok
            /\ pc' = "try_from"
            /\ result' = result
    /\ UNCHANGED << source_text, rejects_empty, gml, idx, polygons, given,
                    constructed >>

\* Variant: an identifier that does not parse is reported as an error.
ResolveIdOrFail ==
    /\ pc = "try_from"
    /\ LET parsed == IdTryFrom(value[1].id) IN
       /\ calls' = Append(calls, "Id::try_from")
       /\ IF parsed # None
          THEN /\ gml' = Some(GmlNew(parsed[1]))
               /\ pc' = "collect"
               /\ result' = result
          ELSE /\ gml' = gml
               /\ pc' = "done"
               /\ result' = Err(ErrorFromDomain("InvalidId"))
    /\ UNCHANGED << source_text, rejects_empty, value, idx, polygons, given,
                    constructed >>

\* Lines 32-37: resolve the Id and build the Gml base.
ResolveId ==
    /\ pc = "try_from"
    /\ LET r == resolve_id(value[1]) IN
       /\ gml' = Some(GmlNew(r.id))
       /\ calls' = calls \o r.calls
    /\ pc' = "collect"
    /\ UNCHANGED << source_text, rejects_empty, value, idx, polygons, result,
                    given, constructed >>

\* Variant: filter_map(|x| x.try_into().ok()), a rejected polygon is skipped.
ConvertMemberSkipRejected ==
    /\ pc = "collect"
    /\ idx <= Len(value[1].members)
    /\ LET inner == flat_map_polygon(value[1].members[idx]) IN
       IF inner = None
       THEN UNCHANGED << polygons, calls, given >>
       ELSE LET r == PolygonTryFrom(inner[1]) IN
            /\ calls' = Append(calls, "Polygon::try_from")
            /\ given' = Append(given, inner[1])
            /\ polygons' = IF r.err # None THEN polygons
                           ELSE push(polygons, r.ok[1])
    /\ idx' = idx + 1
    /\ UNCHANGED << source_text, rejects_empty, pc, value, gml, result,
                    constructed >>

\* Lines 39-44: the iterator chain pulls one member.
ConvertMember ==
    /\ pc = "collect"
    /\ idx <= Len(value[1].members)
    /\ LET inner == flat_map_polygon(value[1].members[idx]) IN
       IF inner = None
       THEN /\ idx' = idx + 1
            /\ UNCHANGED << pc, polygons, result, calls, given >>
       ELSE LET r == PolygonTryFrom(inner[1]) IN
            /\ calls' = Append(calls, "Polygon::try_from")
            /\ given' = Append(given, inner[1])
            /\ IF r.err # None
               THEN /\ result' = Err(ErrorFromDomain(r.err[1]))
                    /\ pc' = "done"
                    /\ polygons' = << >>
                    /\ idx' = idx
               ELSE /\ polygons' = push(polygons, r.ok[1])
                    /\ idx' = idx + 1
                    /\ UNCHANGED << pc, result >>
    /\ UNCHANGED << source_text, rejects_empty, value, gml, constructed >>

\* Variant: this layer rejects an empty polygon sequence itself.
ConstructNonEmpty ==
    /\ pc = "collect"
    /\ idx > Len(value[1].members)
    /\ IF polygons = << >>
       THEN /\ result' = Err([kind |-> "MissingElements", cause |-> "surfaceMember"])
            /\ UNCHANGED << calls, constructed >>
       ELSE /\ calls' = Append(calls, "MultiSurface::new")
            /\ constructed' = Some([gml |-> gml[1], members |-> polygons])
            /\ LET r == MultiSurfaceNew(gml[1], polygons, rejects_empty) IN
               result' = IF r.err # None THEN Err(ErrorFromDomain(r.err[1]))
                         ELSE Ok(r.ok[1])
    /\ pc' = "done"
    /\ UNCHANGED << source_text, rejects_empty, value, gml, idx, polygons,
                    given >>

\* Lines 46-47 and 53: MultiSurface::new(gml, polygons)? and the return.
Construct ==
    /\ pc = "collect"
    /\ idx > Len(value[1].members)
    /\ calls' = Append(calls, "MultiSurface::new")
    /\ constructed' = Some([gml |-> gml[1], members |-> polygons])
    /\ LET r == MultiSurfaceNew(gml[1], polygons, rejects_empty) IN
       result' = IF r.err # None THEN Err(ErrorFromDomain(r.err[1]))
                 ELSE Ok(r.ok[1])
    /\ pc' = "done"
    /\ UNCHANGED << source_text, rejects_empty, value, gml, idx, polygons,
                    given >>

Next == Deserialize \/ ResolveId \/ ConvertMember \/ Construct

Spec == Init /\ [][Next]_vars

\* The step-by-step call returns what the function composition returns.
StepwiseAgrees ==
    pc = "done" /\ value # None =>
        result = try_from(value[1], rejects_empty)

(***************************************************************************)
(* Properties.                                                             *)
(***************************************************************************)
\* The mapped structures of the input alphabet.
Structures == {GmlMultiSurface(t) : t \in SourceTexts}

Last(q) == q[Len(q)]
Range(q) == {q[i] : i \in 1..Len(q)}
Returned == pc = "done"
Mapped == value # None

\* C1: when the identifier attribute is accepted by the Id parser, a
\* successful call returns a MultiSurface whose Id is the parsed value, the
\* fallback hash is not invoked, and every structure with the same
\* identifier but other members resolves to the same Id.
C1_ExplicitIdIsReturned ==
    (Returned /\ Mapped /\ result.ok # None /\ IdTryFrom(value[1].id) # None) =>
        /\ constructed[1].gml.id = IdTryFrom(value[1].id)[1]
        /\ result.ok[1].gml.id = IdTryFrom(value[1].id)[1]
        /\ "Hash::hash" \notin Range(calls)
        /\ "Id::from_hashed_u64" \notin Range(calls)
        /\ \A v2 \in Structures :
              v2.id = value[1].id =>
                 \A b \in BOOLEAN :
                    LET r2 == try_from(v2, b) IN
                    r2.ok # None => r2.ok[1].gml.id = result.ok[1].gml.id

C1_Witness ==
    /\ Returned /\ Mapped /\ result.ok # None
    /\ value[1].id = IdA
    /\ Len(value[1].members) = 2
    /\ value[1].members[1].polygon = None

\* C2: identity resolution never fails: once a structure was deserialized
\* an Id is always obtained, through the from-hashed-value constructor when
\* the identifier is absent, empty or rejected by the Id parser; and the
\* collaborator whose failure ended a call in error is the deserializer,
\* a polygon conversion or the multi-surface constructor.
C2_IdentityNeverFails ==
    /\ (Mapped /\ pc \in {"collect", "done"}) =>
          /\ gml # None
          /\ IdTryFrom(value[1].id) = None =>
                /\ gml[1].id.origin = "hashed"
                /\ "Id::from_hashed_u64" \in Range(calls)
    /\ result.err # None =>
          Last(calls) \in {"de::from_str", "Polygon::try_from", "MultiSurface::new"}

C2_Witness ==
    /\ Returned /\ Mapped /\ result.ok # None
    /\ source_text.id = None
    /\ result.ok[1].gml.id.origin = "hashed"

\* C3: the fallback Id is a function of the whole mapped structure and of
\* nothing else: among the structures whose identifier does not parse, a
\* structure resolves to the Id of this call exactly when it equals the
\* structure of this call (the hash being collision-free).
C3_FallbackIdIsContentAddress ==
    (pc = "collect" /\ idx = 1 /\ gml[1].id.origin = "hashed") =>
        \A v2 \in Structures :
           IdTryFrom(v2.id) = None =>
              ((resolve_id(v2).id = gml[1].id) <=> (v2 = value[1]))

C3_Witness ==
    /\ pc = "collect" /\ idx = 1 /\ gml[1].id.origin = "hashed"
    /\ value[1].id = IdBlank
    /\ Len(value[1].members) = 2
    /\ value[1].members[2] = [href |-> HrefRef, polygon |-> None]

\* Members that carry an inline polygon, by position and in source order.
InlineIdx(ms) == {i \in 1..Len(ms) : ms[i].polygon # None}
KthInline(ms, k) ==
    CHOOSE i \in InlineIdx(ms) : Cardinality({j \in InlineIdx(ms) : j <= i}) = k
InlinePayloads(ms) ==
    [k \in 1..Cardinality(InlineIdx(ms)) |-> ms[KthInline(ms, k)].polygon[1]]
Rejected(p) == PolygonTryFrom(p).err # None

\* Members without an inline polygon: by reference, or with neither field.
WithoutPolygon == {[href |-> h, polygon |-> None] : h \in HrefStrings}
InsertAt(ms, i, m) == SubSeq(ms, 1, i - 1) \o << m >> \o SubSeq(ms, i, Len(ms))
RemoveAt(ms, i) == SubSeq(ms, 1, i - 1) \o SubSeq(ms, i + 1, Len(ms))
Count(q, x) == Cardinality({i \in 1..Len(q) : q[i] = x})

\* What polygon conversion came to in this call: the polygons handed to the
\* multi-surface constructor, or the reason of the failure.
ObservedConversion ==
    IF constructed # None THEN Ok(constructed[1].members)
    ELSE Err(result.err[1].cause)

\* C4: members without an inline polygon are dropped: the polygon
\* constructor is invoked for inline polygons only, a structure without
\* inline polygons reaches the multi-surface constructor with an empty
\* sequence and no conversion, and inserting or removing a member without a
\* polygon at any position leaves the outcome of polygon conversion (the
\* polygon sequence or the failure) as it is.
C4_MembersWithoutPolygonAreDropped ==
    (Returned /\ Mapped) =>
        LET ms == value[1].members IN
        /\ Len(given) <= Cardinality(InlineIdx(ms))
        /\ Count(calls, "Polygon::try_from") = Len(given)
        /\ InlineIdx(ms) = {} =>
              /\ given = << >>
              /\ constructed # None
              /\ constructed[1].members = << >>
        /\ \A m \in WithoutPolygon : \A i \in 1..(Len(ms) + 1) :
              convert_members(InsertAt(ms, i, m)) = ObservedConversion
        /\ \A i \in 1..Len(ms) :
              ms[i].polygon = None =>
                 convert_members(RemoveAt(ms, i)) = ObservedConversion

C4_Witness ==
    /\ Returned /\ Mapped /\ result.ok # None
    /\ Len(value[1].members) = 2
    /\ value[1].members[1] = [href |-> HrefRef, polygon |-> None]
    /\ value[1].members[2].polygon = Some(PHoles)
    /\ Len(result.ok[1].surface_member) = 1

\* C5: on success the polygon sequence handed to the multi-surface
\* constructor has one polygon per member with an inline polygon, in
\* source order: its k-th polygon is the conversion of the k-th such member.
C5_PolygonsInSourceOrder ==
    (Returned /\ result.ok # None) =>
        LET ms == value[1].members
            ps == constructed[1].members
        IN  /\ Len(ps) = Cardinality(InlineIdx(ms))
            /\ \A k \in 1..Len(ps) :
                  ps[k] = PolygonTryFrom(ms[KthInline(ms, k)].polygon[1]).ok[1]
            /\ result.ok[1].surface_member = ps

C5_Witness ==
    /\ Returned /\ result.ok # None
    /\ Len(value[1].members) = 2
    /\ value[1].members[1].polygon = Some(PHoles)
    /\ value[1].members[2].polygon = Some(PRepeat)
    /\ Len(result.ok[1].surface_member) = 2

\* C6: when the polygon constructor rejects an inline polygon, the call
\* returns a PolygonConversion error with the reason of the first rejected
\* polygon in source order and no MultiSurface; the polygons converted
\* before are discarded and the multi-surface constructor is not invoked.
\* A call returns either a MultiSurface or one error, and nothing before it
\* returns.
C6_FirstRejectionAborts ==
    /\ (Returned /\ Mapped /\ \E i \in InlineIdx(value[1].members) :
                                 Rejected(value[1].members[i].polygon[1])) =>
          LET ms == value[1].members
              first == CHOOSE i \in InlineIdx(ms) :
                          /\ Rejected(ms[i].polygon[1])
                          /\ \A j \in InlineIdx(ms) :
                                Rejected(ms[j].polygon[1]) => i <= j
          IN  /\ result.ok = None
              /\ result.err =
                    Some([kind |-> "PolygonConversion",
                          cause |-> PolygonTryFrom(ms[first].polygon[1]).err[1]])
              /\ constructed = None
              /\ polygons = << >>
    /\ Returned => (result.ok = None) # (result.err = None)
    /\ ~Returned => (result.ok = None /\ result.err = None)

C6_Witness ==
    /\ Returned /\ Mapped
    /\ Len(value[1].members) = 2
    /\ value[1].members[1].polygon = Some(PHoles)
    /\ value[1].members[2].polygon = Some(BOpen)
    /\ result.err = Some([kind |-> "PolygonConversion", cause |-> "NotClosed"])

\* C7: when the deserializer fails, the call returns a Deserialization
\* error with the deserializer's cause and nothing else happens in it: no
\* Id parse, no hashing, no polygon conversion, no multi-surface
\* construction, no result value.
C7_DeserializationFailureStopsTheCall ==
    source_text.broken # None =>
        /\ pc \in {"start", "done"}
        /\ calls \in {<< >>, << "de::from_str" >>}
        /\ value = None /\ gml = None
        /\ given = << >> /\ polygons = << >> /\ constructed = None
        /\ result.ok = None
        /\ Returned =>
              result.err = Some([kind |-> "Deserialization",
                                 cause |-> source_text.broken[1]])

C7_Witness ==
    /\ Returned
    /\ source_text.broken = Some("WrongRoot")
    /\ source_text.id = Some(IdA)
    /\ Len(source_text.members) = 2
    /\ source_text.members[1].polygon = Some(BShort)
    /\ result.err # None

\* C8: a structure without convertible members is not rejected here: the
\* multi-surface constructor is invoked with the resolved Id and an empty
\* polygon sequence and the call returns that constructor's outcome; a
\* rejection by the multi-surface constructor is returned with the error
\* kind of a polygon conversion failure.
C8_EmptyIsLeftToTheConstructor ==
    /\ (Returned /\ Mapped /\ InlineIdx(value[1].members) = {}) =>
          LET r == MultiSurfaceNew(gml[1], << >>, rejects_empty) IN
          /\ "MultiSurface::new" \in Range(calls)
          /\ constructed = Some([gml |-> gml[1], members |-> << >>])
          /\ r.ok # None => result = Ok(r.ok[1])
          /\ r.err # None => (result.ok = None /\ result.err # None
                              /\ result.err[1].cause = r.err[1])
    /\ (Returned /\ constructed # None) =>
          LET r == MultiSurfaceNew(constructed[1].gml, constructed[1].members,
                                   rejects_empty)
          IN  r.err # None =>
                 /\ result.err # None
                 /\ result.err[1].kind = ErrorFromDomain("TooFewPoints").kind
                 /\ result.err[1].cause = r.err[1]

C8_Witness ==
    /\ Returned /\ Mapped /\ rejects_empty
    /\ Len(value[1].members) = 2
    /\ InlineIdx(value[1].members) = {}
    /\ result.err = Some([kind |-> "PolygonConversion",
                          cause |-> "MustHaveAtLeastOneMember"])

\* C9: the payloads handed to the polygon constructor are the polygons of
\* the source element as deserialized, in order, repeated points and
\* duplicate members included; when the multi-surface constructor is
\* reached there is one polygon per inline member, each the domain
\* constructor's conversion of the unchanged payload.
C9_PayloadsPassThrough ==
    (Returned /\ Mapped) =>
        LET tp == InlinePayloads(source_text.members) IN
        /\ Len(given) <= Len(tp)
        /\ \A k \in 1..Len(given) : given[k] = tp[k]
        /\ constructed # None =>
              /\ Len(given) = Len(tp)
              /\ Len(constructed[1].members) = Len(tp)
              /\ \A k \in 1..Len(tp) :
                    constructed[1].members[k] = PolygonTryFrom(tp[k]).ok[1]

C9_Witness ==
    /\ Returned /\ result.ok # None
    /\ Len(source_text.members) = 2
    /\ source_text.members[1] = [href |-> None, polygon |-> Some(PRepeat)]
    /\ source_text.members[2] = source_text.members[1]
    /\ given = << PRepeat, PRepeat >>
    /\ Len(result.ok[1].surface_member) = 2

\* C10: the collaborators are invoked in a fixed order: the deserializer
\* first and once, then the Id parser once, then the hash and the
\* from-hashed-value constructor exactly when the parse failed, then only
\* polygon conversions, then the multi-surface constructor at most once and
\* last; no polygon is converted after a rejected one, and the
\* multi-surface constructor is invoked only after every inline polygon was
\* converted successfully.
C10_CollaboratorOrder ==
    LET n == Len(calls)
        fallback == Mapped /\ IdTryFrom(value[1].id) = None
        idEnd == IF fallback THEN 4 ELSE 2
    IN  /\ n >= 1 => calls[1] = "de::from_str"
        /\ n >= 2 => (Mapped /\ calls[2] = "Id::try_from")
        /\ (n >= 2 /\ fallback) =>
              (n >= 4 /\ calls[3] = "Hash::hash" /\ calls[4] = "Id::from_hashed_u64")
        /\ \A i \in (idEnd + 1)..n :
              \/ calls[i] = "Polygon::try_from"
              \/ (i = n /\ calls[i] = "MultiSurface::new" /\ Returned)
        /\ Count(calls, "MultiSurface::new") = IF constructed # None THEN 1 ELSE 0
        /\ \A k \in 1..(Len(given) - 1) : ~Rejected(given[k])
        /\ constructed # None =>
              /\ \A i \in InlineIdx(value[1].members) :
                    ~Rejected(value[1].members[i].polygon[1])
              /\ Len(given) = Cardinality(InlineIdx(value[1].members))

C10_Witness ==
    /\ Returned /\ Mapped /\ result.err # None
    /\ Len(value[1].members) = 2
    /\ value[1].members[1].polygon = Some(BShort)
    /\ value[1].members[2].polygon = Some(PHoles)
    /\ calls = << "de::from_str", "Id::try_from", "Hash::hash",
                  "Id::from_hashed_u64", "Polygon::try_from" >>

====
